---- MODULE Spec2Model ----
(***************************************************************************)
(* A model of domino.Board (package/domino/board.py): a deque of oriented  *)
(* dominoes that grows from either end.  Every method of Board is an       *)
(* operator from the deque before the call to a result record              *)
(*     [exc |-> the exception raised or "none",                            *)
(*      ret |-> the set holding the returned value (empty when none),      *)
(*      board |-> the deque after the call]                                *)
(* and every method call is one action of the state machine.               *)
(***************************************************************************)
EXTENDS Integers, Sequences, FiniteSets, Bags, TLC

\* Faces of the dominoes offered to the board are 0..MaxFace.
MaxFace == 3
\* Calls that would grow the board beyond MaxLen tiles are not explored.
MaxLen == 3
\* Threads sharing a board offer dominoes with faces 0..MaxThreadFace, and
\* their steps that would grow the board beyond MaxThreadLen tiles are not explored.
MaxThreadFace == 1
MaxThreadLen == 2

VARIABLES
    board,   \* self.board: the deque of dominoes, index 1 = leftmost
    op,      \* the method called last ("__init__" after construction)
    arg,     \* the set holding the domino passed to the last call, if any
    exc,     \* the exception the last call raised, "none" when it returned
    ret,     \* the set holding the value the last call returned, if it is a number
    text,    \* the set holding the text the last call returned, if it is a string
    prev,    \* the deque as it was before the last call
    nsucc,   \* the number of add_left/add_right calls that returned so far
    scen,    \* how many calls of the docstring's usage example the history is, -1 when it is not one
    offered, \* the bag of the tiles, as unordered face pairs, passed to the add calls that returned
    again,   \* TRUE when the last call repeated, with the same tile, an add call that had just returned
    thr,     \* for each thread calling into a shared board: where it is in its add call
    overlap  \* TRUE once a thread has run while another thread was inside a call

\* The state of a board used by one caller, and the rest.
seqVars == <<op, arg, exc, ret, text, prev, nsucc, scen, offered, again>>

concVars == <<thr, overlap>>

vars == <<board, seqVars, concVars>>

----------------------------------------------------------------------------
\* The Domino collaborator: two faces, inversion and the [first|second] form.

Faces == 0..MaxFace

Domino(a, b) == [first |-> a, second |-> b]

Dominoes == {Domino(a, b) : a \in Faces, b \in Faces}

inverted(d) == Domino(d.second, d.first)

domino_str(d) == "[" \o ToString(d.first) \o "|" \o ToString(d.second) \o "]"

----------------------------------------------------------------------------
\* Results of a method and the deque primitives the methods use.

Return(v, b) == [exc |-> "none", ret |-> v, board |-> b]

Raise(e, b) == [exc |-> e, ret |-> {}, board |-> b]

\* collections.deque.append
append(b, d) == Append(b, d)

\* collections.deque.appendleft
appendleft(b, d) == <<d>> \o b

\* collections.deque.__getitem__: negative indexes count from the right and
\* an index outside the deque raises IndexError.
getitem(b, i) ==
    LET n == Len(b)
        j == IF i < 0 THEN i + n ELSE i
    IN  IF j < 0 \/ j >= n
        THEN Raise("IndexError", b)
        ELSE Return({b[j + 1]}, b)

----------------------------------------------------------------------------
\* The methods of Board.

\* Board.__init__
__init__ == << >>

\* Board.__len__
__len__(b) == Return({Len(b)}, b)

\* `not self`: Board defines no __bool__, so truth is __len__() != 0.
not_self(b) ==
    LET n == __len__(b)
    IN  [n EXCEPT !.ret = {v = 0 : v \in n.ret}]

\* left_end with a default: the empty board answers 0 instead of raising.
left_end_default(b) ==
    LET r == getitem(b, 0)
    IN  IF r.exc = "IndexError"
        THEN Return({0}, r.board)
        ELSE Return({t.first : t \in r.ret}, r.board)

\* left_end written with deque.popleft(): it takes the tile off the board.
left_end_pops(b) ==
    LET r == getitem(b, 0)
    IN  IF r.exc = "IndexError"
        THEN Raise("EmptyBoardException", r.board)
        ELSE Return({t.first : t \in r.ret}, Tail(r.board))

\* Board.left_end
left_end(b) ==
    LET r == getitem(b, 0)
    IN  IF r.exc = "IndexError"
        THEN Raise("EmptyBoardException", r.board)
        ELSE IF r.exc # "none"
        THEN r
        ELSE Return({t.first : t \in r.ret}, r.board)

\* right_end written with deque.pop(): it takes the tile off the board.
right_end_pops(b) ==
    LET r == getitem(b, -1)
    IN  IF r.exc = "IndexError"
        THEN Raise("EmptyBoardException", r.board)
        ELSE Return({t.second : t \in r.ret}, SubSeq(r.board, 1, Len(r.board) - 1))

\* Board.right_end
right_end(b) ==
    LET r == getitem(b, -1)
    IN  IF r.exc = "IndexError"
        THEN Raise("EmptyBoardException", r.board)
        ELSE IF r.exc # "none"
        THEN r
        ELSE Return({t.second : t \in r.ret}, r.board)

\* The shape of both add methods, used by the faulty variants below:
\* whenEmpty is stored on the empty board, the end is compared with d.first
\* then with d.second, and onFirst or onSecond is the board left by the
\* matching branch, onNeither the result of the last branch.
AddVariant(b, d, end, whenEmpty, onFirst, onSecond, onNeither) ==
    IF not_self(b).ret = {TRUE} THEN Return({}, whenEmpty)
    ELSE IF end.exc # "none" THEN Raise(end.exc, b)
    ELSE IF end.ret = {d.first} THEN Return({}, onFirst)
    ELSE IF end.ret = {d.second} THEN Return({}, onSecond)
    ELSE onNeither

\* add_left that forgets to invert the tile in the first branch.
add_left_never_inverts(b, d) ==
    AddVariant(b, d, left_end(b), append(b, d),
               appendleft(b, d), appendleft(b, d),
               Raise("EndsMismatchException", b))

\* add_left that returns silently when neither face matches.
add_left_swallows_mismatch(b, d) ==
    AddVariant(b, d, left_end(b), append(b, d),
               appendleft(b, inverted(d)), appendleft(b, d),
               Return({}, b))

\* add_left with the orientations of its two branches exchanged.
add_left_branches_swapped(b, d) ==
    AddVariant(b, d, left_end(b), append(b, d),
               appendleft(b, d), appendleft(b, inverted(d)),
               Raise("EndsMismatchException", b))

\* add_left that stores the first tile inverted.
add_left_first_inverted(b, d) ==
    AddVariant(b, d, left_end(b), appendleft(b, inverted(d)),
               appendleft(b, inverted(d)), appendleft(b, d),
               Raise("EndsMismatchException", b))

\* add_right that appends the tile before it raises.
add_right_inserts_then_raises(b, d) ==
    AddVariant(b, d, right_end(b), append(b, d),
               append(b, d), append(b, inverted(d)),
               Raise("EndsMismatchException", append(b, d)))

\* add_right with the orientations of its two branches exchanged.
add_right_branches_swapped(b, d) ==
    AddVariant(b, d, right_end(b), append(b, d),
               append(b, inverted(d)), append(b, d),
               Raise("EndsMismatchException", b))

\* add_right that refuses a tile the board already holds.
add_right_rejects_duplicates(b, d) ==
    IF \E i \in 1..Len(b) : b[i] \in {d, inverted(d)}
    THEN Raise("EndsMismatchException", b)
    ELSE AddVariant(b, d, right_end(b), append(b, d),
                    append(b, d), append(b, inverted(d)),
                    Raise("EndsMismatchException", b))

\* add_right that compares the tile with the left end of the board.
add_right_tests_left_end(b, d) ==
    AddVariant(b, d, left_end(b), append(b, d),
               append(b, d), append(b, inverted(d)),
               Raise("EndsMismatchException", b))

\* add_right whose inverting branch calls appendleft instead of append.
add_right_inverted_goes_left(b, d) ==
    AddVariant(b, d, right_end(b), append(b, d),
               append(b, d), appendleft(b, inverted(d)),
               Raise("EndsMismatchException", b))

\* add_right that, when the right end does not match, tries the left end.
add_right_falls_back_left(b, d) ==
    AddVariant(b, d, right_end(b), append(b, d),
               append(b, d), append(b, inverted(d)),
               AddVariant(b, d, left_end(b), append(b, d),
                          appendleft(b, inverted(d)), appendleft(b, d),
                          Raise("EndsMismatchException", b)))

\* add_left whose inverting branch calls append instead of appendleft.
add_left_inverted_goes_right(b, d) ==
    AddVariant(b, d, left_end(b), append(b, d),
               append(b, inverted(d)), appendleft(b, d),
               Raise("EndsMismatchException", b))

\* add_right that builds the inverted tile from d.second twice.
add_right_rebuilds_tile(b, d) ==
    AddVariant(b, d, right_end(b), append(b, d),
               append(b, d), append(b, Domino(d.second, d.second)),
               Raise("EndsMismatchException", b))

\* add_left that refuses a tile the board already holds.
add_left_rejects_duplicates(b, d) ==
    IF \E i \in 1..Len(b) : b[i] \in {d, inverted(d)}
    THEN Raise("EndsMismatchException", b)
    ELSE AddVariant(b, d, left_end(b), append(b, d),
                    appendleft(b, inverted(d)), appendleft(b, d),
                    Raise("EndsMismatchException", b))

\* Board.add_left.  The two elif tests each call left_end(); an exception
\* raised by a call made on the way propagates to the caller.
add_left(b, d) ==
    LET e == not_self(b)
    IN  IF e.exc # "none" THEN Raise(e.exc, e.board)
        ELSE IF e.ret = {TRUE} THEN Return({}, append(e.board, d))
        ELSE LET l1 == left_end(e.board)
             IN  IF l1.exc # "none" THEN Raise(l1.exc, l1.board)
                 ELSE IF l1.ret = {d.first}
                 THEN Return({}, appendleft(l1.board, inverted(d)))
                 ELSE LET l2 == left_end(l1.board)
                      IN  IF l2.exc # "none" THEN Raise(l2.exc, l2.board)
                          ELSE IF l2.ret = {d.second}
                          THEN Return({}, appendleft(l2.board, d))
                          ELSE Raise("EndsMismatchException", l2.board)

\* Board.add_right
add_right(b, d) ==
    LET e == not_self(b)
    IN  IF e.exc # "none" THEN Raise(e.exc, e.board)
        ELSE IF e.ret = {TRUE} THEN Return({}, append(e.board, d))
        ELSE LET r1 == right_end(e.board)
             IN  IF r1.exc # "none" THEN Raise(r1.exc, r1.board)
                 ELSE IF r1.ret = {d.first}
                 THEN Return({}, append(r1.board, d))
                 ELSE LET r2 == right_end(r1.board)
                      IN  IF r2.exc # "none" THEN Raise(r2.exc, r2.board)
                          ELSE IF r2.ret = {d.second}
                          THEN Return({}, append(r2.board, inverted(d)))
                          ELSE Raise("EndsMismatchException", r2.board)

\* The steps an add call is made of, for either method: the emptiness test
\* is not_self, then come the read of the relevant end, the insertion of the
\* branch whose test passed, and the whole call when nothing interrupts it.

\* self.left_end() in add_left, self.right_end() in add_right
end_of(name, b) == IF name = "add_left" THEN left_end(b) ELSE right_end(b)

\* The first branch stores the tile without looking at the board again.
first_branch_keeps_orientation(name, b, d) ==
    IF name = "add_left" THEN appendleft(b, d) ELSE append(b, d)

\* The insertion of the branch taken when d.first is the end.
first_branch(name, b, d) ==
    IF name = "add_left" THEN appendleft(b, inverted(d)) ELSE append(b, d)

\* The insertion of the branch taken when d.second is the end.
second_branch(name, b, d) ==
    IF name = "add_left" THEN appendleft(b, d) ELSE append(b, inverted(d))

\* The call as a whole.
add(name, b, d) == IF name = "add_left" THEN add_left(b, d) ELSE add_right(b, d)

\* ' '.join(str(d) for d in self.board): a separator between the tiles.
RECURSIVE join_spaced(_)
join_spaced(b) ==
    IF b = << >> THEN ""
    ELSE IF Len(b) = 1 THEN domino_str(Head(b))
    ELSE domino_str(Head(b)) \o " " \o join_spaced(Tail(b))

\* ''.join(str(d) for d in self.board)
RECURSIVE join(_)
join(b) == IF b = << >> THEN "" ELSE domino_str(Head(b)) \o join(Tail(b))

\* Board.__str__
__str__(b) == Return({join(b)}, b)

\* Board.__repr__
__repr__(b) == __str__(b)

----------------------------------------------------------------------------
\* The usage example of the class docstring, as the calls that change the board.

DocCalls ==
    << [op |-> "add_left",  d |-> Domino(1, 2)],
       [op |-> "add_right", d |-> Domino(1, 3)],
       [op |-> "add_left",  d |-> Domino(1, 3)] >>

\* A tile as an unordered pair of faces.
Unordered(d) == {d.first, d.second}

\* The threads of a host application that share one board.
Threads == {1, 2}

\* A thread that is in no call and has made none.
Idle ==
    [pc |-> "idle", op |-> "", d |-> {},
     exc |-> "none", wrote |-> 0, fit |-> TRUE, agrees |-> TRUE]

\* The position in the usage example after the call c.
ScenAfter(c) ==
    IF scen >= 0 /\ scen < Len(DocCalls) /\ DocCalls[scen + 1] = c
    THEN scen + 1
    ELSE -1

----------------------------------------------------------------------------
\* The state machine: one action per method call.

Init ==
    /\ board = __init__
    /\ op = "__init__"
    /\ arg = {}
    /\ exc = "none"
    /\ ret = {}
    /\ text = {}
    /\ prev = << >>
    /\ nsucc = 0
    /\ scen = 0
    /\ offered = EmptyBag
    /\ again = FALSE
    /\ thr = [t \in Threads |-> Idle]
    /\ overlap = FALSE

\* A call of add_left or add_right, with result r.
Added(name, d, r) ==
    /\ Len(r.board) <= MaxLen
    /\ board' = r.board
    /\ op' = name
    /\ arg' = {d}
    /\ exc' = r.exc
    /\ ret' = {}
    /\ text' = {}
    /\ prev' = board
    /\ nsucc' = IF r.exc = "none" THEN nsucc + 1 ELSE nsucc
    /\ scen' = ScenAfter([op |-> name, d |-> d])
    /\ offered' = IF r.exc = "none" THEN offered (+) SetToBag({Unordered(d)}) ELSE offered
    /\ again' = (op = name /\ arg = {d} /\ exc = "none")
    /\ UNCHANGED concVars

\* A call of a query, with result r; isText tells a text from a number.
Queried(name, r, isText) ==
    /\ Len(r.board) <= MaxLen
    /\ board' = r.board
    /\ op' = name
    /\ arg' = {}
    /\ exc' = r.exc
    /\ ret' = IF isText THEN {} ELSE r.ret
    /\ text' = IF isText THEN r.ret ELSE {}
    /\ prev' = board
    /\ again' = FALSE
    /\ UNCHANGED <<nsucc, scen, offered, concVars>>

AddLeft == \E d \in Dominoes : Added("add_left", d, add_left(board, d))

AddRight == \E d \in Dominoes : Added("add_right", d, add_right(board, d))

LeftEnd == Queried("left_end", left_end(board), FALSE)

RightEnd == Queried("right_end", right_end(board), FALSE)

Length == Queried("__len__", __len__(board), FALSE)

Str == Queried("__str__", __str__(board), TRUE)

Repr == Queried("__repr__", __repr__(board), TRUE)

Next ==
    \/ AddLeft
    \/ AddRight
    \/ LeftEnd
    \/ RightEnd
    \/ Length
    \/ Str
    \/ Repr

----------------------------------------------------------------------------
\* Two threads calling add_left and add_right on one board with no lock: a
\* thread may be suspended between any two steps of its call.

\* The dominoes the threads offer.
ThreadDominoes == {Domino(a, b) : a \in 0..MaxThreadFace, b \in 0..MaxThreadFace}

\* The tile the thread t is adding.
TileOf(t) == CHOOSE d \in thr[t].d : TRUE

\* nb is b with one tile more at one end, and the new tile matches its neighbour.
Fitted(b, nb) ==
    /\ Len(nb) = Len(b) + 1
    /\ \/ /\ SubSeq(nb, 2, Len(nb)) = b
          /\ b # << >> => nb[1].second = nb[2].first
       \/ /\ SubSeq(nb, 1, Len(b)) = b
          /\ b # << >> => nb[Len(b)].second = nb[Len(nb)].first

\* The thread t takes a step that leaves it in state st and the board as nb.
Step(t, st, nb) ==
    /\ Len(nb) <= MaxThreadLen
    /\ board' = nb
    /\ thr' = [thr EXCEPT ![t] = st]
    /\ overlap' = (overlap \/ \E u \in Threads \ {t} : thr[u].pc \notin {"idle", "done"})
    /\ UNCHANGED seqVars

\* The state of the thread t when its call ends with e, having left the
\* board as nb.  A call writes the board in its last step only, so when no
\* other thread ran since the call began the board is still the one the
\* call began with: agrees compares the call with the whole method run on it.
Ended(t, e, nb) ==
    LET whole == add(thr[t].op, board, TileOf(t))
    IN  [Idle EXCEPT
            !.pc = "done",
            !.exc = e,
            !.wrote = IF nb = board THEN 0 ELSE 1,
            !.fit = (nb # board => Fitted(board, nb)),
            !.agrees = (whole.exc = e /\ whole.board = nb)]

\* The thread t calls add_left(d) or add_right(d) and runs it up to its
\* first look at the board: if not self
Call(t) ==
    /\ thr[t].pc \in {"idle", "done"}
    /\ \E name \in {"add_left", "add_right"}, d \in ThreadDominoes :
        LET e == not_self(board)
        IN  Step(t, [Idle EXCEPT !.pc = IF e.ret = {TRUE} THEN "first" ELSE "read1",
                                 !.op = name, !.d = {d}], e.board)

\* self.board.append(d), the board having been found empty
AppendFirst(t) ==
    /\ thr[t].pc = "first"
    /\ LET nb == append(board, TileOf(t))
       IN  Step(t, Ended(t, "none", nb), nb)

\* elif d.first == self.left_end() / self.right_end()
ReadFirst(t) ==
    /\ thr[t].pc = "read1"
    /\ LET l == end_of(thr[t].op, board)
       IN  IF l.exc # "none" THEN Step(t, Ended(t, l.exc, l.board), l.board)
           ELSE Step(t, [thr[t] EXCEPT !.pc = IF l.ret = {TileOf(t).first}
                                               THEN "insert1" ELSE "read2"], l.board)

\* the insertion of the first branch
InsertFirst(t) ==
    /\ thr[t].pc = "insert1"
    /\ LET nb == first_branch(thr[t].op, board, TileOf(t))
       IN  Step(t, Ended(t, "none", nb), nb)

\* elif d.second == self.left_end() / self.right_end(), else raise
ReadSecond(t) ==
    /\ thr[t].pc = "read2"
    /\ LET l == end_of(thr[t].op, board)
       IN  IF l.exc # "none" THEN Step(t, Ended(t, l.exc, l.board), l.board)
           ELSE IF l.ret = {TileOf(t).second}
           THEN Step(t, [thr[t] EXCEPT !.pc = "insert2"], l.board)
           ELSE Step(t, Ended(t, "EndsMismatchException", l.board), l.board)

\* the insertion of the second branch
InsertSecond(t) ==
    /\ thr[t].pc = "insert2"
    /\ LET nb == second_branch(thr[t].op, board, TileOf(t))
       IN  Step(t, Ended(t, "none", nb), nb)

NextThreads ==
    \E t \in Threads :
        \/ Call(t)
        \/ AppendFirst(t)
        \/ ReadFirst(t)
        \/ InsertFirst(t)
        \/ ReadSecond(t)
        \/ InsertSecond(t)

SpecThreads == Init /\ [][NextThreads]_vars

Spec == Init /\ [][Next]_vars

----------------------------------------------------------------------------
\* Vocabulary of the properties.

AddOps == {"add_left", "add_right"}

QueryOps == {"left_end", "right_end", "__len__", "__str__", "__repr__"}

\* The last call was an add that returned / that raised.
AddSucceeded == op \in AddOps /\ exc = "none"

AddFailed == op \in AddOps /\ exc # "none"

\* Every adjacent pair of b matches.
Continuous(b) == \A i \in 1..(Len(b) - 1) : b[i].second = b[i + 1].first

\* The end of the deque b that the add method `name` compares against.
RelevantEnd(name, b) == IF name = "add_left" THEN b[1].first ELSE b[Len(b)].second

\* Neither face of d is the value v.
Mismatch(d, v) == d.first # v /\ d.second # v

\* The domino passed to the last add call.
TheArg == CHOOSE d \in arg : TRUE

\* The value a query returns on the deque b.
LeftOf(b) == CHOOSE v \in left_end(b).ret : TRUE

RightOf(b) == CHOOSE v \in right_end(b).ret : TRUE

LengthOf(b) == CHOOSE v \in __len__(b).ret : TRUE

----------------------------------------------------------------------------
\* C1: chain continuity.  After any sequence of add_left and add_right
\* calls, successful or failed, with any tiles, every adjacent pair of
\* stored tiles satisfies tiles[i].second = tiles[i+1].first.
C1_ChainContinuity == Continuous(board)

\* A chain of two or more tiles whose leftmost tile was stored inverted.
C1_Witness ==
    /\ op = "add_left"
    /\ exc = "none"
    /\ Len(board) >= 2
    /\ board[1] = inverted(TheArg)
    /\ board[1] # TheArg

\* C2: atomic rejection.  When the board is non-empty and neither face of d
\* equals the relevant end, the call fails with EndsMismatchException and the
\* whole tile sequence is the one before the call, so the length and both
\* ends are unchanged.
C2_AtomicRejection ==
    (/\ op \in AddOps
     /\ prev # << >>
     /\ Mismatch(TheArg, RelevantEnd(op, prev)))
    => /\ exc = "EndsMismatchException"
       /\ board = prev
       /\ __len__(board).ret = __len__(prev).ret
       /\ left_end(board).ret = left_end(prev).ret
       /\ right_end(board).ret = right_end(prev).ret

\* A rejected add_right on a chain of two or more tiles.
C2_Witness ==
    /\ op = "add_right"
    /\ Len(prev) >= 2
    /\ Mismatch(TheArg, prev[Len(prev)].second)
    /\ exc = "EndsMismatchException"

\* C3: in every reachable state the length is the number of add calls that
\* succeeded so far: a successful call adds exactly one tile and a failed
\* call leaves the length unchanged.
C3_LengthCountsSuccesses ==
    /\ __len__(board).ret = {nsucc}
    /\ AddSucceeded => LengthOf(board) = LengthOf(prev) + 1
    /\ AddFailed => LengthOf(board) = LengthOf(prev)

\* A failed call after two successful ones.
C3_Witness == AddFailed /\ nsucc >= 2 /\ LengthOf(board) = 2

\* C4: left_end and right_end fail with EmptyBoardException exactly when the
\* board has no tiles; on a board of n >= 1 tiles they return tiles[0].first
\* and tiles[n-1].second, and on the empty board they return no value at all.
C4_EndsOfBoard ==
    /\ op \in {"left_end", "right_end"} =>
        /\ exc \in {"none", "EmptyBoardException"}
        /\ exc = "EmptyBoardException" <=> Len(prev) = 0
        /\ Len(prev) = 0 => ret = {}
    /\ (op = "left_end" /\ Len(prev) >= 1) => ret = {prev[1].first}
    /\ (op = "right_end" /\ Len(prev) >= 1) => ret = {prev[Len(prev)].second}

\* left_end on the empty board raised and returned nothing.
C4_Witness ==
    /\ op = "left_end"
    /\ prev = << >>
    /\ exc = "EmptyBoardException"
    /\ ret = {}

\* C5: add_left orientation.  On a non-empty board with left end L,
\* add_left(d) with d.first = L inserts d.inverted() at position 0 and the new
\* left end is d.second; otherwise, with d.second = L, it inserts d unchanged
\* at position 0 and the new left end is d.first.
C5_AddLeftOrientation ==
    (op = "add_left" /\ prev # << >>) =>
        LET d == TheArg
            L == prev[1].first
        IN  /\ d.first = L =>
                /\ exc = "none"
                /\ board = <<inverted(d)>> \o prev
                /\ left_end(board).ret = {d.second}
            /\ (d.first # L /\ d.second = L) =>
                /\ exc = "none"
                /\ board = <<d>> \o prev
                /\ left_end(board).ret = {d.first}

\* Tile (a,b) with a # b was added to the left of a board whose left end is a.
C5_Witness ==
    /\ op = "add_left"
    /\ prev # << >>
    /\ TheArg.first = prev[1].first
    /\ TheArg.first # TheArg.second
    /\ left_end(board).ret = {TheArg.second}

\* C6: add_right orientation.  On a non-empty board with right end R,
\* add_right(d) with d.first = R appends d unchanged and the new right end is
\* d.second; otherwise, with d.second = R, it appends d.inverted() and the new
\* right end is d.first.
C6_AddRightOrientation ==
    (op = "add_right" /\ prev # << >>) =>
        LET d == TheArg
            R == prev[Len(prev)].second
        IN  /\ d.first = R =>
                /\ exc = "none"
                /\ board = prev \o <<d>>
                /\ right_end(board).ret = {d.second}
            /\ (d.first # R /\ d.second = R) =>
                /\ exc = "none"
                /\ board = prev \o <<inverted(d)>>
                /\ right_end(board).ret = {d.first}

\* Tile (a,b) with a # b was added to the right of a board whose right end is b.
C6_Witness ==
    /\ op = "add_right"
    /\ prev # << >>
    /\ TheArg.second = prev[Len(prev)].second
    /\ TheArg.first # TheArg.second
    /\ right_end(board).ret = {TheArg.first}

\* C7: first insertion.  On an empty board add_left(d) and add_right(d) both
\* succeed and give the same board: the sole tile d in its given orientation,
\* so the left end is d.first, the right end is d.second, and the two ends
\* are equal only if d is a double.
C7_FirstInsertion ==
    /\ (op \in AddOps /\ prev = << >>) =>
        /\ exc = "none"
        /\ board = <<TheArg>>
        /\ __len__(board).ret = {1}
        /\ left_end(board).ret = {TheArg.first}
        /\ right_end(board).ret = {TheArg.second}
        /\ LeftOf(board) = RightOf(board) <=> TheArg.first = TheArg.second
    /\ board = << >> =>
        \A d \in Dominoes : add_left(board, d) = add_right(board, d)

\* A tile that is no double was added to the left of the empty board.
C7_Witness ==
    /\ op = "add_left"
    /\ prev = << >>
    /\ Len(board) = 1
    /\ TheArg.first # TheArg.second

\* C8: an add call fails only with EndsMismatchException and only when the
\* board is non-empty and neither face of d equals the relevant end: on the
\* empty board, or when a face of d equals that end, it succeeds, also for a
\* tile that is already on the board.
C8_OnlyMismatchFails ==
    op \in AddOps =>
        /\ exc \in {"none", "EndsMismatchException"}
        /\ exc # "none" =>
            /\ prev # << >>
            /\ Mismatch(TheArg, RelevantEnd(op, prev))

\* A tile already on the board, in the same orientation, was added again.
C8_Witness ==
    /\ AddSucceeded
    /\ \E i \in 1..Len(prev) : prev[i] = TheArg
    /\ Len(board) = Len(prev) + 1

\* C9: the documented scenario.  From the empty board add_left(Domino(1,2))
\* succeeds and gives [1|2] with ends 1 and 2 and length 1; then
\* add_right(Domino(1,3)) fails with EndsMismatchException and changes
\* nothing; then add_left(Domino(1,3)) succeeds and gives [3|1][1|2] with
\* ends 3 and 2 and length 2.
C9_DocumentedScenario ==
    /\ scen = 1 =>
        /\ board = <<Domino(1, 2)>>
        /\ left_end(board).ret = {1}
        /\ right_end(board).ret = {2}
        /\ __len__(board).ret = {1}
        /\ op = "add_left" => exc = "none"
    /\ scen = 2 =>
        /\ board = <<Domino(1, 2)>>
        /\ op = "add_right" => (exc = "EndsMismatchException" /\ board = prev)
    /\ scen = 3 =>
        /\ board = <<Domino(3, 1), Domino(1, 2)>>
        /\ left_end(board).ret = {3}
        /\ right_end(board).ret = {2}
        /\ __len__(board).ret = {2}
        /\ __str__(board).ret = {"[3|1][1|2]"}
        /\ op = "add_left" => exc = "none"

\* The third call of the scenario has just returned.
C9_Witness == scen = 3 /\ op = "add_left" /\ Len(prev) = 1

\* C10: the queries left_end, right_end, __len__, __str__ and __repr__ leave
\* the tile sequence unchanged in every state, also when left_end or
\* right_end fail on the empty board; __len__ never fails and returns 0 on
\* the empty board.
C10_QueriesArePure ==
    /\ op \in QueryOps => board = prev
    /\ op = "__len__" =>
        /\ exc = "none"
        /\ ret = {Len(prev)}
        /\ prev = << >> => ret = {0}

\* right_end answered on a board of two or more tiles.
C10_Witness ==
    /\ op = "right_end"
    /\ exc = "none"
    /\ Len(prev) >= 2
    /\ board = prev

\* C11: frame of a successful insertion on a non-empty board.  add_left
\* changes only position 0: the previous sequence is the suffix tiles[1..] of
\* the new one and the right end is unchanged; add_right changes only the
\* last position: the previous sequence is the prefix of the new one and the
\* left end is unchanged.  No call re-orients, moves or replaces a stored tile.
C11_InsertionFrame ==
    /\ (AddSucceeded /\ prev # << >> /\ op = "add_left") =>
        /\ Len(board) = Len(prev) + 1
        /\ SubSeq(board, 2, Len(board)) = prev
        /\ right_end(board).ret = right_end(prev).ret
    /\ (AddSucceeded /\ prev # << >> /\ op = "add_right") =>
        /\ Len(board) = Len(prev) + 1
        /\ SubSeq(board, 1, Len(board) - 1) = prev
        /\ left_end(board).ret = left_end(prev).ret
    /\ \E k \in {0, 1} :
        /\ Len(prev) + k <= Len(board)
        /\ SubSeq(board, 1 + k, Len(prev) + k) = prev

\* add_right stored an inverted tile after a chain of two or more tiles.
C11_Witness ==
    /\ op = "add_right"
    /\ exc = "none"
    /\ Len(prev) >= 2
    /\ board[Len(board)] = inverted(TheArg)
    /\ board[Len(board)] # TheArg

\* C12: irreversibility.  Along every sequence of calls the length never
\* decreases and grows by at most 1 per call; a board that holds a tile is
\* never empty again, so after the first successful insertion left_end and
\* right_end never fail with EmptyBoardException.
C12_Irreversible ==
    [][/\ Len(board') >= Len(board)
       /\ Len(board') <= Len(board) + 1
       /\ board # << >> => board' # << >>
       /\ (nsucc' >= 1 /\ op' \in {"left_end", "right_end"})
            => exc' # "EmptyBoardException"]_vars

\* left_end answered on a board that had received an insertion.
C12_Witness ==
    /\ op = "left_end"
    /\ nsucc >= 1
    /\ exc = "none"
    /\ ret = {board[1].first}

\* The thread t has returned from a call.
Returned(t) == thr[t].pc = "done"

\* C13 as stated: none of the operations is divisible into unsafe partial
\* steps, so when two add calls on one board are interleaved at the
\* granularity of the emptiness test, the read of the end and the insertion,
\* every reachable state is a continuous chain and each call has either
\* inserted one correctly oriented tile or failed leaving the board unchanged.
C13_InterleavingIsSafe ==
    /\ Continuous(board)
    /\ \A t \in Threads :
        Returned(t) =>
            /\ thr[t].exc = "none" => (thr[t].wrote = 1 /\ thr[t].fit)
            /\ thr[t].exc # "none" => thr[t].wrote = 0

\* C13 as amended: the add calls are divisible, and what holds under every
\* interleaving is only that a call that returns has inserted exactly one
\* tile and a call that fails, always with EndsMismatchException, has inserted
\* none.  As long as the calls are serialized, no thread running while
\* another is inside a call, every reachable state is a continuous chain and
\* each call has done what the whole method does on the board it found: it
\* inserted one correctly oriented tile or failed leaving the board unchanged.
C13_SerializedIsSafe ==
    /\ \A t \in Threads :
        Returned(t) =>
            /\ thr[t].exc \in {"none", "EndsMismatchException"}
            /\ thr[t].exc = "none" => thr[t].wrote = 1
            /\ thr[t].exc # "none" => thr[t].wrote = 0
    /\ ~overlap =>
        /\ Continuous(board)
        /\ \A t \in Threads : Returned(t) => (thr[t].fit /\ thr[t].agrees)

\* Both threads have inserted a tile, one call after the other.
C13_Witness ==
    /\ ~overlap
    /\ \A t \in Threads : Returned(t) /\ thr[t].exc = "none"
    /\ Len(board) >= 2

\* C15: insertion is order-dependent.  There are tiles d1, d2 such that, from
\* the empty board, add_right(d1) then add_right(d2) both succeed while
\* add_right(d2) then add_right(d1) ends with the second call failing with
\* EndsMismatchException; d1 = (1,2), d2 = (2,3) are such tiles.
C15_OrderDependent ==
    LET Both(d1, d2) == add_right(add_right(board, d1).board, d2)
        Splits(d1, d2) ==
            /\ add_right(board, d1).exc = "none"
            /\ add_right(board, d2).exc = "none"
            /\ Both(d1, d2).exc = "none"
            /\ Both(d2, d1).exc = "EndsMismatchException"
    IN  /\ board = << >> =>
            /\ \E d1 \in Dominoes, d2 \in Dominoes : Splits(d1, d2)
            /\ Splits(Domino(1, 2), Domino(2, 3))
        /\ (op = "add_right" /\ prev = <<Domino(1, 2)>> /\ arg = {Domino(2, 3)}) =>
            (exc = "none" /\ board = <<Domino(1, 2), Domino(2, 3)>>)
        /\ (op = "add_right" /\ prev = <<Domino(2, 3)>> /\ arg = {Domino(1, 2)}) =>
            (exc = "EndsMismatchException" /\ board = prev)

\* add_right((1,2)) has just failed on the board that holds (2,3) alone.
C15_Witness ==
    /\ op = "add_right"
    /\ prev = <<Domino(2, 3)>>
    /\ arg = {Domino(1, 2)}
    /\ exc = "EndsMismatchException"
    /\ nsucc = 1

\* C16: double tie-break.  For a double d whose face is the relevant end of a
\* non-empty board, the add call takes the first-face branch and the board it
\* leaves is the one the second-face branch would leave; the end value is
\* unchanged by the insertion.
C16_DoubleTieBreak ==
    (/\ op \in AddOps
     /\ prev # << >>
     /\ TheArg.first = TheArg.second
     /\ TheArg.first = RelevantEnd(op, prev))
    => /\ exc = "none"
       /\ board = first_branch(op, prev, TheArg)
       /\ board = second_branch(op, prev, TheArg)
       /\ end_of(op, board).ret = end_of(op, prev).ret

\* A double was added to the left of a chain whose two ends differ.
C16_Witness ==
    /\ op = "add_left"
    /\ exc = "none"
    /\ prev # << >>
    /\ TheArg.first = TheArg.second
    /\ prev[1].first # prev[Len(prev)].second

\* The [first|second] forms of the first n tiles of b, put together right to left.
RECURSIVE Rendered(_, _)
Rendered(b, n) ==
    IF n = 0 THEN ""
    ELSE Rendered(b, n - 1)
         \o "[" \o ToString(b[n].first) \o "|" \o ToString(b[n].second) \o "]"

\* C17: the text of a board is the concatenation, with no separators, of the
\* [first|second] form of each stored tile in board order, in its stored
\* orientation, and the empty text for the empty board; the repr form and
\* the str form of a board are equal.
C17_Render ==
    /\ op \in {"__str__", "__repr__"} =>
        /\ exc = "none"
        /\ text = {Rendered(prev, Len(prev))}
        /\ prev = << >> => text = {""}
    /\ __repr__(board) = __str__(board)
    /\ __str__(board).ret = {Rendered(board, Len(board))}

\* The text of a chain whose first tile was stored inverted.
C17_Witness ==
    /\ op = "__str__"
    /\ board = <<Domino(3, 1), Domino(1, 2)>>
    /\ text = {"[3|1][1|2]"}

\* How many tiles of b are the unordered pair u.
Stored(b, u) == Cardinality({i \in 1..Len(b) : Unordered(b[i]) = u})

\* b without its i-th tile.
Without(b, i) == SubSeq(b, 1, i - 1) \o SubSeq(b, i + 1, Len(b))

\* C18: tile conservation.  In every reachable state the multiset of stored
\* tiles, as unordered face pairs, is the multiset of the tiles passed to the
\* add calls that succeeded; the tile a successful call stores is d or
\* d.inverted(), and a rejected tile is not put on the board.
C18_TileConservation ==
    /\ \A d \in Dominoes :
        Stored(board, Unordered(d)) = CopiesIn(Unordered(d), offered)
    /\ \A u \in BagToSet(offered) : \E d \in Dominoes : u = Unordered(d)
    /\ AddSucceeded =>
        \E i \in 1..Len(board) :
            /\ board[i] \in {TheArg, inverted(TheArg)}
            /\ Without(board, i) = prev
    /\ AddFailed => board = prev

\* The same tile is stored twice, the second time inverted.
C18_Witness ==
    /\ op = "add_right"
    /\ exc = "none"
    /\ CopiesIn(Unordered(TheArg), offered) = 2
    /\ board[Len(board)] = inverted(TheArg)
    /\ board[Len(board)] # TheArg

\* C19: repeatability.  The end an add call has grown is a face of its tile,
\* so the same call made again immediately after a successful one succeeds
\* too; when the board was non-empty before the first of the two calls, the
\* end is then back to its value before the first call.
C19_Repeatable ==
    [][/\ AddSucceeded => RelevantEnd(op, board) \in Unordered(TheArg)
       /\ (AddSucceeded /\ op' = op /\ arg' = arg) =>
            /\ exc' = "none"
            /\ prev # << >> => RelevantEnd(op, board') = RelevantEnd(op, prev)]_vars

\* add_left(d) was made twice in a row on a board that held one tile.
C19_Witness ==
    /\ again
    /\ op = "add_left"
    /\ exc = "none"
    /\ Len(board) = 3
    /\ board[1].first = board[3].first

====
